---- MODULE Spec2Model ----
(***************************************************************************)
(* Model of the autonomous action engine of ResolveMeQ: the Action         *)
(* Executor (tickets/tasks.py), the Rollback Manager (tickets/rollback.py  *)
(* and the rollback_action view), the ActionHistory / TicketResolution     *)
(* tables (tickets/models.py) and the delayed follow-up tasks.             *)
(*                                                                         *)
(* One ticket is modelled.  Every handler is one action; the input `fail`  *)
(* of a handler names the statement of the handler that raises (a failed   *)
(* database write, a failed HTTP call of the notification, a broker that   *)
(* is down), "none" when no statement raises.  Writes that were committed  *)
(* before the raising statement stay committed: no handler runs inside a   *)
(* transaction.                                                            *)
(***************************************************************************)
EXTENDS Integers, Sequences, FiniteSets, TLC

VARIABLES
    ticket,        \* the Ticket row: status, assigned_to, agent_processed, agent_response
    history,       \* the ActionHistory rows of the ticket, in insertion order
    resolution,    \* the TicketResolution row of the ticket, or NoRow
    tasks,         \* delayed Celery tasks that were scheduled and did not fire yet
    now,           \* timezone.now(), a logical clock (no modelled call advances it)
    inflight,      \* operations that loaded their rows and did not save them yet, each
                   \* with the copies it holds in memory
    last           \* the call that produced this state: its inputs, its return value,
                   \* the number of TicketInteraction rows it inserted, and what it
                   \* found: the ticket, the number of ActionHistory rows and of
                   \* pending tasks, and the rolled_back flag of its entry

vars == <<ticket, history, resolution, tasks, now, inflight, last>>

----------------------------------------------------------------------------
(* Bounds of the model *)

MaxHistory == 2
MaxTasks == 1
MaxRequests == 2
MaxTime == 2

----------------------------------------------------------------------------
(* Values *)

None == "None"
NoTime == -1
NoRow == [exists |-> FALSE]
\* a nullable BooleanField holds None, True or False; a null IntegerField is NoScore
True == "True"
False == "False"
NoScore == -1

\* request.user of a rollback request
Actors == {"admin"}
Reasons == {"r1"}

\* the action names execute_autonomous_action dispatches on
ActionTypes ==
    {"AUTO_RESOLVE", "ESCALATE", "REQUEST_CLARIFICATION", "ASSIGN_TO_TEAM",
     "SCHEDULE_FOLLOWUP", "CREATE_KB_ARTICLE"}

\* an action name outside the dispatch
UnknownAction == "UNKNOWN_ACTION"

\* a JSON object is a function from its keys to strings; None and {} are EmptyDict
EmptyDict == [k \in {} |-> None]

\* dict.get(key, default)
Get(d, key, default) == IF key \in DOMAIN d THEN d[key] ELSE default

\* truth value of a JSON field: None and {} are falsy
Truthy(d) == DOMAIN d # {}

----------------------------------------------------------------------------
(* Exceptions: a handler is a list of statements; `fail` names the one that *)
(* raises.  A statement took effect iff it comes before the raising one.    *)

\* position of the raising statement in the handler, past the end for "none"
Pos(steps, f) ==
    IF f = "none" THEN Len(steps) + 1
    ELSE CHOOSE i \in 1..Len(steps) : steps[i] = f

\* statement s of the handler completed when statement f raises
Ran(steps, s, f) == Pos(steps, s) < Pos(steps, f)

Range(seq) == {seq[i] : i \in 1..Len(seq)}

FailPoints(steps) == Range(steps) \cup {"none"}

----------------------------------------------------------------------------
(* Rows *)

\* Ticket.assigned_to.user_id: base.User has the primary key `id` and no
\* attribute `user_id`, so the read raises AttributeError for any user
Raises == "AttributeError"
user_id(u) == Raises

\* `ticket.assigned_to.user_id if ticket.assigned_to else None`
assigned_to_id(t) == IF t.assigned_to # None THEN user_id(t.assigned_to) ELSE None

\* ActionHistory(...) with the model's field defaults
NewEntry(action_type, before_state, after_state, rollback_possible) ==
    [action_type |-> action_type,
     before_state |-> before_state,
     after_state |-> after_state,
     rollback_possible |-> rollback_possible,
     agent_reasoning |-> "",
     rolled_back |-> FALSE,
     rolled_back_at |-> NoTime,
     rolled_back_by |-> None,
     rollback_reason |-> ""]

\* TicketResolution(ticket=ticket, autonomous_action=...) with the field defaults
NewResolution(autonomous_action) ==
    [exists |-> TRUE,
     autonomous_action |-> autonomous_action,
     resolution_confirmed |-> None,
     user_feedback_text |-> "",
     satisfaction_score |-> NoScore,
     followup_sent_at |-> NoTime,
     response_received_at |-> NoTime,
     reopened |-> FALSE,
     reopened_at |-> NoTime,
     reopened_reason |-> ""]

\* TicketResolution.objects.get_or_create(ticket=ticket, defaults={autonomous_action})
get_or_create(res, autonomous_action) ==
    IF res.exists THEN res ELSE NewResolution(autonomous_action)

\* countdown of the follow-up that AUTO_RESOLVE schedules: 24 hours
FollowupCountdown == 86400
\* a task scheduled with eta=... carries no countdown
NoCountdown == -1

Task(name, countdown) == [name |-> name, countdown |-> countdown]

\* TicketInteraction is an append-only log that no modelled code reads: the model
\* keeps the number of rows each call appends, not the table
Called(op, action, entry, fail, ret, interactions) ==
    [op |-> op, action |-> action, entry |-> entry, fail |-> fail, ret |-> ret,
     interactions |-> interactions,
     pre |-> ticket,
     entries |-> Len(history),
     tasks |-> Len(tasks),
     was_rolled_back |-> IF entry \in 1..Len(history) THEN history[entry].rolled_back
                         ELSE FALSE]

----------------------------------------------------------------------------
(* Initial state: a ticket made by create_ticket (status new, not yet       *)
(* analysed) or by the seed_data command (in_progress tickets are assigned  *)
(* and analysed, resolved tickets are analysed), and empty tables.          *)

SeedTickets ==
    {[status |-> "new", assigned_to |-> None,
      agent_processed |-> FALSE, agent_response |-> EmptyDict],
     [status |-> "in_progress", assigned_to |-> "u1",
      agent_processed |-> TRUE, agent_response |-> [recommended_action |-> "assign_to_team"]],
     [status |-> "resolved", assigned_to |-> None,
      agent_processed |-> TRUE, agent_response |-> [recommended_action |-> "auto_resolve"]]}

Init ==
    /\ ticket \in SeedTickets
    /\ history = << >>
    /\ resolution = NoRow
    /\ tasks = << >>
    /\ now = 0
    /\ inflight = << >>
    /\ last = Called("init", None, 0, "none", FALSE, 0)

----------------------------------------------------------------------------
(* Action Executor: tickets/tasks.py *)

\* a snapshot taken after the status was already set
AutoResolveBeforeState_late(t) ==
    [status |-> "resolved", assigned_to_id |-> assigned_to_id(t)]

\* handle_auto_resolve: the snapshot taken before the ticket is touched
AutoResolveBeforeState(t) ==
    [status |-> t.status, assigned_to_id |-> assigned_to_id(t)]

\* the statements of handle_auto_resolve that can raise, in program order
AutoResolveSteps ==
    <<"before_state", "ticket_save", "history_create", "interaction_create",
      "resolution_get_or_create", "notify", "schedule_followup">>

handle_auto_resolve(params, fail) ==
    LET f == IF assigned_to_id(ticket) = Raises THEN "before_state" ELSE fail
        ran(s) == Ran(AutoResolveSteps, s, f)
        before_state == AutoResolveBeforeState(ticket)
        resolved == [ticket EXCEPT !.status = "resolved"]
        after_state == [status |-> resolved.status,
                        assigned_to_id |-> assigned_to_id(resolved)]
        entry == NewEntry("AUTO_RESOLVE", before_state, after_state, TRUE)
    IN  /\ fail # "before_state"
        /\ Len(history) < MaxHistory
        /\ Len(tasks) < MaxTasks
        /\ ticket' = IF ran("ticket_save") THEN resolved ELSE ticket
        /\ history' = IF ran("history_create") THEN Append(history, entry) ELSE history
        /\ resolution' = IF ran("resolution_get_or_create")
                         THEN get_or_create(resolution, "AUTO_RESOLVE")
                         ELSE resolution
        /\ tasks' = IF ran("schedule_followup")
                    THEN Append(tasks, Task("schedule_resolution_followup", FollowupCountdown))
                    ELSE tasks
        /\ last' = Called("execute_autonomous_action", "AUTO_RESOLVE", 0, f, f = "none",
                         IF ran("interaction_create") THEN 1 ELSE 0)
        /\ UNCHANGED <<now, inflight>>

\* handle_escalate: the snapshot taken before the ticket is touched
EscalateBeforeState(t) == [status |-> t.status]

\* params.get('escalation_reason', 'Requires human attention')
EscalationReason(params) == Get(params, "escalation_reason", "Requires human attention")

EscalateSteps == <<"ticket_save", "history_create", "interaction_create", "notify">>

\* the rows after handle_escalate(ticket, params) with the statement `fail` raising
EscalateTicket(fail) ==
    IF Ran(EscalateSteps, "ticket_save", fail)
    THEN [ticket EXCEPT !.status = "escalated"] ELSE ticket

EscalateHistory(params, fail) ==
    IF Ran(EscalateSteps, "history_create", fail)
    THEN Append(history,
                [NewEntry("ESCALATE", EscalateBeforeState(ticket),
                          [status |-> "escalated"], TRUE)
                 EXCEPT !.agent_reasoning = EscalationReason(params)])
    ELSE history

\* the TicketInteraction rows handle_escalate inserts
EscalateInteractions(fail) ==
    IF Ran(EscalateSteps, "interaction_create", fail) THEN 1 ELSE 0

handle_escalate(params, fail) ==
    /\ Len(history) < MaxHistory
    /\ ticket' = EscalateTicket(fail)
    /\ history' = EscalateHistory(params, fail)
    /\ last' = Called("execute_autonomous_action", "ESCALATE", 0, fail, fail = "none",
                      EscalateInteractions(fail))
    /\ UNCHANGED <<resolution, tasks, now, inflight>>

ClarificationSteps == <<"ticket_save", "interaction_create", "notify">>

handle_request_clarification(params, fail) ==
    /\ ticket' = IF Ran(ClarificationSteps, "ticket_save", fail)
                 THEN [ticket EXCEPT !.status = "pending_clarification"] ELSE ticket
    /\ last' = Called("execute_autonomous_action", "REQUEST_CLARIFICATION", 0, fail,
                      fail = "none",
                      IF Ran(ClarificationSteps, "interaction_create", fail) THEN 1 ELSE 0)
    /\ UNCHANGED <<history, resolution, tasks, now, inflight>>

\* handle_assign_to_team: the snapshot taken before the ticket is touched
AssignBeforeState(t) ==
    [assigned_to_id |-> assigned_to_id(t), status |-> t.status]

AssignSteps == <<"before_state", "ticket_save", "history_create", "interaction_create">>

handle_assign_to_team(params, fail) ==
    LET f == IF assigned_to_id(ticket) = Raises THEN "before_state" ELSE fail
        ran(s) == Ran(AssignSteps, s, f)
        assigned == [ticket EXCEPT !.status = "assigned"]
        entry == [NewEntry("ASSIGN_TO_TEAM", AssignBeforeState(ticket),
                           AssignBeforeState(assigned), TRUE)
                  EXCEPT !.agent_reasoning = "Assigned to team"]
    IN  /\ fail # "before_state"
        /\ Len(history) < MaxHistory
        /\ ticket' = IF ran("ticket_save") THEN assigned ELSE ticket
        /\ history' = IF ran("history_create") THEN Append(history, entry) ELSE history
        /\ last' = Called("execute_autonomous_action", "ASSIGN_TO_TEAM", 0, f, f = "none",
                          IF ran("interaction_create") THEN 1 ELSE 0)
        /\ UNCHANGED <<resolution, tasks, now, inflight>>

FollowupSteps == <<"schedule_followup", "notify">>

\* check_ticket_followup.apply_async(eta=followup_time), only `if followup_time`
handle_schedule_followup(params, fail) ==
    /\ Len(tasks) < MaxTasks
    /\ "followup_time" \notin DOMAIN params => fail # "schedule_followup"
    /\ tasks' = IF /\ "followup_time" \in DOMAIN params
                   /\ Ran(FollowupSteps, "schedule_followup", fail)
                THEN Append(tasks, Task("check_ticket_followup", NoCountdown))
                ELSE tasks
    /\ last' = Called("execute_autonomous_action", "SCHEDULE_FOLLOWUP", 0, fail,
                      fail = "none", 0)
    /\ UNCHANGED <<ticket, history, resolution, now, inflight>>

KbSteps == <<"sync_to_knowledge_base">>

\* the knowledge-base store is outside the model: only the call's outcome is kept
handle_create_kb_article(params, fail) ==
    /\ last' = Called("execute_autonomous_action", "CREATE_KB_ARTICLE", 0, fail,
                      fail = "none", 0)
    /\ UNCHANGED <<ticket, history, resolution, tasks, now, inflight>>

\* a dispatcher whose else branch escalates instead of rejecting
unknown_action_coerced(action) ==
    /\ Len(history) < MaxHistory
    /\ ticket' = EscalateTicket("none")
    /\ history' = EscalateHistory(EmptyDict, "none")
    /\ last' = Called("execute_autonomous_action", action, 0, "none", TRUE, 1)
    /\ UNCHANGED <<resolution, tasks, now, inflight>>

\* the else branch of the dispatcher: success = False
unknown_action(action) ==
    /\ last' = Called("execute_autonomous_action", action, 0, "none", FALSE, 0)
    /\ UNCHANGED <<ticket, history, resolution, tasks, now, inflight>>

\* the params a caller can pass for an action
ParamsOf(action) ==
    IF action = "SCHEDULE_FOLLOWUP" THEN {EmptyDict, [followup_time |-> "eta"]}
    ELSE {EmptyDict}

\* the task execute_autonomous_action(ticket_id, action, params): an exception of
\* the handler is caught at the dispatch boundary and the task returns False
execute_autonomous_action(action, params) ==
    \/ /\ action = "AUTO_RESOLVE"
       /\ \E fail \in FailPoints(AutoResolveSteps) : handle_auto_resolve(params, fail)
    \/ /\ action = "ESCALATE"
       /\ \E fail \in FailPoints(EscalateSteps) : handle_escalate(params, fail)
    \/ /\ action = "REQUEST_CLARIFICATION"
       /\ \E fail \in FailPoints(ClarificationSteps) :
              handle_request_clarification(params, fail)
    \/ /\ action = "ASSIGN_TO_TEAM"
       /\ \E fail \in FailPoints(AssignSteps) : handle_assign_to_team(params, fail)
    \/ /\ action = "SCHEDULE_FOLLOWUP"
       /\ \E fail \in FailPoints(FollowupSteps) : handle_schedule_followup(params, fail)
    \/ /\ action = "CREATE_KB_ARTICLE"
       /\ \E fail \in FailPoints(KbSteps) : handle_create_kb_article(params, fail)
    \/ /\ action \notin ActionTypes
       /\ unknown_action(action)

Execute ==
    \E action \in ActionTypes \cup {UnknownAction} :
        \E params \in ParamsOf(action) : execute_autonomous_action(action, params)

----------------------------------------------------------------------------
(* Delayed tasks: tickets/tasks.py *)

Remove(seq, i) == SubSeq(seq, 1, i - 1) \o SubSeq(seq, i + 1, Len(seq))

\* the params check_ticket_followup passes to handle_escalate
FollowupEscalationParams ==
    [escalation_reason |-> "Solution did not resolve issue within expected timeframe",
     priority |-> "high"]

\* a check that treats only resolved as done
NotResolved_closedOpen(t) == t.status # "resolved"

\* `ticket.status not in ["resolved", "closed"]`
NotResolved(t) == t.status \notin {"resolved", "closed"}

\* the task check_ticket_followup fires: every exception is logged and swallowed
check_ticket_followup(i, fail) ==
    /\ tasks[i].name = "check_ticket_followup"
    /\ IF NotResolved(ticket)
       THEN /\ Len(history) < MaxHistory
            /\ ticket' = EscalateTicket(fail)
            /\ history' = EscalateHistory(FollowupEscalationParams, fail)
            /\ last' = Called("check_ticket_followup", None, 0, fail, FALSE,
                              EscalateInteractions(fail))
       ELSE /\ fail = "none"
            /\ last' = Called("check_ticket_followup", None, 0, fail, FALSE, 0)
            /\ UNCHANGED <<ticket, history>>
    /\ tasks' = Remove(tasks, i)
    /\ UNCHANGED <<resolution, now, inflight>>

\* ticket.agent_response.get('recommended_action', 'unknown'), 'unknown' without a dict
RecommendedAction(t) == Get(t.agent_response, "recommended_action", "unknown")

\* a follow-up that never stamps the row
MarkFollowupSent_never(res, t) == res

\* `if resolution.followup_sent_at: return`, else followup_sent_at = timezone.now()
MarkFollowupSent(res, t) ==
    IF res.followup_sent_at # NoTime THEN res
    ELSE [res EXCEPT !.followup_sent_at = t]

ResolutionFollowupSteps == <<"resolution_get_or_create", "resolution_save">>

\* the task schedule_resolution_followup fires, 24 hours after AUTO_RESOLVE
schedule_resolution_followup(i, fail) ==
    LET got == get_or_create(resolution, RecommendedAction(ticket))
    IN  /\ tasks[i].name = "schedule_resolution_followup"
        /\ got.followup_sent_at # NoTime => fail # "resolution_save"
        /\ resolution' =
              IF Ran(ResolutionFollowupSteps, "resolution_save", fail)
              THEN MarkFollowupSent(got, now)
              ELSE IF Ran(ResolutionFollowupSteps, "resolution_get_or_create", fail)
              THEN got
              ELSE resolution
        /\ tasks' = Remove(tasks, i)
        /\ last' = Called("schedule_resolution_followup", None, 0, fail, FALSE, 0)
        /\ UNCHANGED <<ticket, history, now, inflight>>

FireTask ==
    \E i \in 1..Len(tasks) :
        \/ \E fail \in FailPoints(EscalateSteps) : check_ticket_followup(i, fail)
        \/ \E fail \in FailPoints(ResolutionFollowupSteps) :
               schedule_resolution_followup(i, fail)

----------------------------------------------------------------------------
(* Other writers of the tables *)

\* the statuses a request of bulk_update_tickets sets in this model
ManualStatuses == {"in_progress", "closed"}

\* views.bulk_update_tickets: Ticket.objects.filter(...).update(status=status_val)
bulk_update_tickets(status_val) ==
    /\ ticket.status # status_val
    /\ ticket' = [ticket EXCEPT !.status = status_val]
    /\ last' = Called("bulk_update_tickets", None, 0, "none", TRUE, 0)
    /\ UNCHANGED <<history, resolution, tasks, now, inflight>>

\* the snapshots a caller of ActionHistory.objects.create passes in this model
SnapshotInputs ==
    {EmptyDict, [status |-> "in_progress"],
     [status |-> "new", assigned_to_id |-> None], [assigned_to_id |-> "u1"]}

\* ActionHistory.objects.create(ticket=..., action_type=..., before_state=...), as the
\* tests and fixtures of the repository do: a row with the model's defaults
ActionHistory_create(action_type, before_state) ==
    /\ Len(history) < MaxHistory
    /\ history' = Append(history, NewEntry(action_type, before_state, EmptyDict, FALSE))
    /\ last' = Called("ActionHistory_create", action_type, Len(history) + 1, "none", TRUE, 0)
    /\ UNCHANGED <<ticket, resolution, tasks, now, inflight>>

----------------------------------------------------------------------------
(* Rollback Manager: tickets/rollback.py *)

\* a rollback that re-derives the prior status instead of reading the snapshot
RestoredStatus_derived(before_state, default) == default

\* the status a status rollback writes: the snapshot's status, else the default
RestoredStatus(before_state, default) ==
    IF Truthy(before_state) THEN Get(before_state, "status", default) ELSE default

\* the entry after "Mark action as rolled back"
MarkRolledBack(entry, rollback_by, reason, t) ==
    [entry EXCEPT !.rolled_back = TRUE,
                  !.rolled_back_at = t,
                  !.rolled_back_by = rollback_by,
                  !.rollback_reason = reason]

RollbackSteps == <<"user_lookup", "ticket_save", "interaction_create", "entry_save">>

\* the rollback call that produced the state, with the user it was made for
CalledBy(rollback_by, op, i, fail, ret, interactions) ==
    [by |-> rollback_by] @@ Called(op, history[i].action_type, i, fail, ret, interactions)

\* the common body of the three rollback handlers: save the restored ticket, add
\* the interaction, mark the entry; an exception returns False
ApplyRollback(i, restored, rollback_by, reason, fail, op) ==
    /\ ticket' = IF Ran(RollbackSteps, "ticket_save", fail) THEN restored ELSE ticket
    /\ history' = IF Ran(RollbackSteps, "entry_save", fail)
                  THEN [history EXCEPT ![i] = MarkRolledBack(@, rollback_by, reason, now)]
                  ELSE history
    /\ last' = CalledBy(rollback_by, op, i, fail, fail = "none",
                        IF Ran(RollbackSteps, "interaction_create", fail) THEN 1 ELSE 0)
    /\ UNCHANGED <<resolution, tasks, now, inflight>>

\* a rollback that reads the snapshot of the ticket's most recent entry
EntryBeforeState_latest(i) == history[Len(history)].before_state

\* action_history.before_state: the snapshot of the entry the handler was given
EntryBeforeState(i) == history[i].before_state

rollback_auto_resolve(i, rollback_by, reason, fail, op) ==
    /\ fail # "user_lookup"
    /\ ApplyRollback(i,
           [ticket EXCEPT !.status = RestoredStatus(EntryBeforeState(i), "in-progress")],
           rollback_by, reason, fail, op)

rollback_escalate(i, rollback_by, reason, fail, op) ==
    /\ fail # "user_lookup"
    /\ ApplyRollback(i,
           [ticket EXCEPT !.status = RestoredStatus(EntryBeforeState(i), "new")],
           rollback_by, reason, fail, op)

\* before_state.get('assigned_to_id') of a truthy snapshot, else None
PrevAssigneeId(before_state) ==
    IF Truthy(before_state) THEN Get(before_state, "assigned_to_id", None) ELSE None

\* User.objects.get(user_id=prev_assignee_id) raises FieldError: base.User has no
\* field user_id; the lookup is only made for a non-null id
rollback_assign_to_team(i, rollback_by, reason, fail, op) ==
    LET prev == PrevAssigneeId(EntryBeforeState(i))
        f == IF prev # None THEN "user_lookup" ELSE fail
    IN  /\ fail # "user_lookup"
        /\ ApplyRollback(i, [ticket EXCEPT !.assigned_to = None],
                         rollback_by, reason, f, op)

\* RollbackManager.can_rollback
ROLLBACK_SUPPORTED == {"AUTO_RESOLVE", "ASSIGN_TO_TEAM", "ESCALATE", "SCHEDULE_FOLLOWUP"}
can_rollback(action_type) == action_type \in ROLLBACK_SUPPORTED

\* a dispatch whose last branch is an else: every other type is handled as ESCALATE
RollbackHandler_fallthrough(action_type) ==
    IF action_type = "AUTO_RESOLVE" THEN "rollback_auto_resolve"
    ELSE IF action_type = "ASSIGN_TO_TEAM" THEN "rollback_assign_to_team"
    ELSE "rollback_escalate"

\* the if/elif chain of execute_rollback: the handler of an action type
RollbackHandler(action_type) ==
    IF action_type = "AUTO_RESOLVE" THEN "rollback_auto_resolve"
    ELSE IF action_type = "ASSIGN_TO_TEAM" THEN "rollback_assign_to_team"
    ELSE IF action_type = "ESCALATE" THEN "rollback_escalate"
    ELSE "no_handler"

\* RollbackManager.execute_rollback(action_history, rollback_by, reason), called as
\* `op`: the dispatch on the entry's action type
execute_rollback(i, rollback_by, reason, op) ==
    LET handler == RollbackHandler(history[i].action_type)
    IN  \/ /\ handler = "rollback_auto_resolve"
           /\ \E fail \in FailPoints(RollbackSteps) :
                  rollback_auto_resolve(i, rollback_by, reason, fail, op)
        \/ /\ handler = "rollback_assign_to_team"
           /\ \E fail \in FailPoints(RollbackSteps) :
                  rollback_assign_to_team(i, rollback_by, reason, fail, op)
        \/ /\ handler = "rollback_escalate"
           /\ \E fail \in FailPoints(RollbackSteps) :
                  rollback_escalate(i, rollback_by, reason, fail, op)
        \/ /\ handler = "no_handler"
           /\ last' = CalledBy(rollback_by, op, i, "none", FALSE, 0)
           /\ UNCHANGED <<ticket, history, resolution, tasks, now, inflight>>

\* a direct call of the Rollback Manager
ExecuteRollback ==
    \E i \in 1..Len(history), rollback_by \in Actors, reason \in Reasons :
        execute_rollback(i, rollback_by, reason, "execute_rollback")

\* request.user.is_staff; base.User has no attribute `role`
is_staff(user) == user = "admin"

\* a request rejected before the Rollback Manager is called
Rejected(i, user, code) ==
    /\ last' = CalledBy(user, "rollback_action", i, code, FALSE, 0)
    /\ UNCHANGED <<ticket, history, resolution, tasks, now, inflight>>

\* a view without the permission check
rollback_action_open(i, user, reason) ==
    IF history[i].rolled_back THEN Rejected(i, user, "HTTP_400_BAD_REQUEST")
    ELSE IF ~can_rollback(history[i].action_type)
    THEN Rejected(i, user, "HTTP_400_BAD_REQUEST")
    ELSE execute_rollback(i, user, reason, "rollback_action")

\* the view rollback_action(request, action_history_id)
rollback_action(i, user, reason) ==
    IF ~is_staff(user) THEN Rejected(i, user, "HTTP_403_FORBIDDEN")
    ELSE IF history[i].rolled_back THEN Rejected(i, user, "HTTP_400_BAD_REQUEST")
    ELSE IF ~can_rollback(history[i].action_type)
    THEN Rejected(i, user, "HTTP_400_BAD_REQUEST")
    ELSE execute_rollback(i, user, reason, "rollback_action")

RollbackRequest ==
    \E i \in 1..Len(history), user \in Actors \cup {"user1"}, reason \in Reasons :
        rollback_action(i, user, reason)

----------------------------------------------------------------------------
(* Resolution Feedback Tracker: tickets/views.py, tickets/models.py *)

\* a resolution that reads an unknown outcome as a failure
was_successful_coerced(res) ==
    IF res.reopened THEN False
    ELSE IF res.resolution_confirmed = True THEN True
    ELSE IF res.satisfaction_score \notin {NoScore, 0} /\ res.satisfaction_score >= 4 THEN True
    ELSE False

\* TicketResolution.was_successful; `self.satisfaction_score and ...` is falsy for
\* None and for 0
was_successful(res) ==
    IF res.reopened THEN False
    ELSE IF res.resolution_confirmed = True THEN True
    ELSE IF res.satisfaction_score \notin {NoScore, 0} /\ res.satisfaction_score >= 4 THEN True
    ELSE None

\* the body of a feedback request: resolution_confirmed, satisfaction_score and
\* feedback_text, each of which may be left out
Missing == "<missing>"
Confirmations == {None, True, False}
Scores == {NoScore} \cup 1..5
FeedbackTexts == {Missing, "", "still broken"}

\* request.data.get('feedback_text', default)
FeedbackText(text, default) == IF text = Missing THEN default ELSE text

FeedbackSteps == <<"resolution_get_or_create", "ticket_save", "resolution_save">>

\* the view submit_resolution_feedback(request, ticket_id); an exception is
\* answered with HTTP 500
submit_resolution_feedback(confirmed, score, text, fail) ==
    LET ran(s) == Ran(FeedbackSteps, s, fail)
        got == get_or_create(resolution, "MANUAL")
        updated == [got EXCEPT !.resolution_confirmed = confirmed,
                               !.satisfaction_score = score,
                               !.user_feedback_text = FeedbackText(text, ""),
                               !.response_received_at = now]
        reopened == [updated EXCEPT
                        !.reopened = TRUE,
                        !.reopened_at = now,
                        !.reopened_reason =
                            FeedbackText(text, "User reported issue not resolved")]
    IN  /\ confirmed # False => fail # "ticket_save"
        /\ ticket' = IF confirmed = False /\ ran("ticket_save")
                     THEN [ticket EXCEPT !.status = "escalated"] ELSE ticket
        /\ resolution' = IF ran("resolution_save")
                         THEN (IF confirmed = False THEN reopened ELSE updated)
                         ELSE IF ran("resolution_get_or_create") THEN got
                         ELSE resolution
        /\ last' = Called("submit_resolution_feedback", None, 0, fail, fail = "none", 0)
        /\ UNCHANGED <<history, tasks, now, inflight>>

SubmitFeedback ==
    \E confirmed \in Confirmations, score \in Scores, text \in FeedbackTexts :
        \E fail \in FailPoints(FeedbackSteps) :
            submit_resolution_feedback(confirmed, score, text, fail)

\* TicketResolution.objects.create(ticket=..., autonomous_action='AUTO_RESOLVE', ...),
\* as the tests of the repository do: a row with the given fields
TicketResolution_create(reopened, confirmed, score) ==
    /\ ~resolution.exists
    /\ resolution' = [NewResolution("AUTO_RESOLVE") EXCEPT
                         !.reopened = reopened,
                         !.resolution_confirmed = confirmed,
                         !.satisfaction_score = score]
    /\ last' = Called("TicketResolution_create", None, 0, "none", TRUE, 0)
    /\ UNCHANGED <<ticket, history, tasks, now, inflight>>

----------------------------------------------------------------------------
(* Decision Policy: tickets/autonomous_agent.py, modelled from section 4.1  *)
(* of the specification.  Confidence is in percent.                         *)

HIGH_CONFIDENCE_THRESHOLD == 80
LOW_CONFIDENCE_THRESHOLD == 50

SensitiveCategories == {"security"}

\* the keys of the AI signal the policy reads
Confidence(signal) == Get(signal, "confidence", 0)
HasSteps(signal) == "resolution_steps" \in DOMAIN signal
Tentative(signal) == Get(signal, "tentative", FALSE)

\* AutonomousAgent.decide_autonomous_action: the member of AgentAction it returns
decide_autonomous_action(signal) ==
    IF Get(signal, "category", "") \in SensitiveCategories THEN "ESCALATE"
    ELSE IF "category" \notin DOMAIN signal THEN "REQUEST_CLARIFICATION"
    ELSE IF Confidence(signal) < LOW_CONFIDENCE_THRESHOLD THEN "REQUEST_CLARIFICATION"
    ELSE IF Confidence(signal) >= HIGH_CONFIDENCE_THRESHOLD /\ HasSteps(signal)
         THEN "AUTO_RESOLVE"
    ELSE IF Confidence(signal) < HIGH_CONFIDENCE_THRESHOLD
         THEN (IF Tentative(signal) THEN "SCHEDULE_FOLLOWUP" ELSE "ASSIGN_TO_TEAM")
    ELSE "ESCALATE"

----------------------------------------------------------------------------
(* AI processing: process_ticket_with_agent (tickets/tasks.py) and the view *)
(* process_with_agent (tickets/views.py)                                    *)

\* @app.task(bind=True, max_retries=3)
max_retries == 3

\* the JSON bodies the AI service answers with
Confidences == {0, 50, 80, 100}
AgentResponses ==
    {EmptyDict, [resolution_steps |-> "steps", category |-> "wifi"]}
    \cup {[confidence |-> c, category |-> cat, tentative |-> tent] :
            c \in Confidences, cat \in {"wifi", "security"}, tent \in BOOLEAN}
    \cup {[confidence |-> c, category |-> "wifi", resolution_steps |-> "steps"] :
            c \in Confidences}

\* a retry that queues a fresh task and so forgets how often it was tried
ProcessTask_fresh(retries) ==
    [name |-> "process_ticket_with_agent", countdown |-> NoCountdown, retries |-> 0]

\* process_ticket_with_agent.delay(ticket_id), and self.retry(countdown=60 * 2 ** retries)
ProcessTask(retries) ==
    [name |-> "process_ticket_with_agent",
     countdown |-> IF retries = 0 THEN NoCountdown ELSE 60 * 2 ^ (retries - 1),
     retries |-> retries]

\* a dispatch that passes the enum member instead of its value
AgentActionValue_member(action) == "AgentAction." \o action

\* action.value: the string the dispatcher of execute_autonomous_action compares
AgentActionValue(action) == action

\* execute_autonomous_action.delay(ticket_id, action.value, params)
DispatchTask(action) ==
    [name |-> "execute_autonomous_action",
     countdown |-> NoCountdown,
     action |-> AgentActionValue(action)]

\* the call of process_ticket_with_agent that produced the state, with its attempt
CalledAttempt(attempt, fail, ret) ==
    [attempt |-> attempt] @@ Called("process_ticket_with_agent", None, 0, fail, ret, 0)

ProcessSteps ==
    <<"requests_post", "ticket_save", "decide", "dispatch", "solution_get_or_create">>

\* `if ticket.agent_processed: return False`
process_skip(i) ==
    /\ tasks[i].name = "process_ticket_with_agent"
    /\ ticket.agent_processed
    /\ tasks' = Remove(tasks, i)
    /\ last' = CalledAttempt(tasks[i].retries + 1, "none", FALSE)
    /\ UNCHANGED <<ticket, history, resolution, now, inflight>>

\* `except requests.RequestException`: self.retry re-queues the task while
\* request.retries < max_retries and raises exc after that
process_retry(i) ==
    /\ tasks[i].name = "process_ticket_with_agent"
    /\ ~ticket.agent_processed
    /\ tasks' = IF tasks[i].retries < max_retries
                THEN Append(Remove(tasks, i), ProcessTask(tasks[i].retries + 1))
                ELSE Remove(tasks, i)
    /\ last' = CalledAttempt(tasks[i].retries + 1, "requests_post", FALSE)
    /\ UNCHANGED <<ticket, history, resolution, now, inflight>>

\* the AI service answered `response`; any other exception returns False
process_response(i, response, fail) ==
    LET ran(s) == Ran(ProcessSteps, s, fail)
        stored == [ticket EXCEPT !.agent_response = response, !.agent_processed = TRUE]
        action == decide_autonomous_action(stored.agent_response)
    IN  /\ tasks[i].name = "process_ticket_with_agent"
        /\ ~ticket.agent_processed
        /\ fail # "requests_post"
        /\ ticket' = IF ran("ticket_save") THEN stored ELSE ticket
        /\ tasks' = IF ran("dispatch")
                    THEN Append(Remove(tasks, i), DispatchTask(action))
                    ELSE Remove(tasks, i)
        /\ last' = CalledAttempt(tasks[i].retries + 1, fail, fail = "none")
        /\ UNCHANGED <<history, resolution, now, inflight>>

process_ticket_with_agent(i) ==
    \/ process_skip(i)
    \/ process_retry(i)
    \/ \E response \in AgentResponses, fail \in FailPoints(ProcessSteps) :
           process_response(i, response, fail)

ProcessTicket == \E i \in 1..Len(tasks) : process_ticket_with_agent(i)

\* a worker takes a dispatched execute_autonomous_action message off the queue;
\* what it then does is the action execute_autonomous_action of Spec
TakeDispatched ==
    \E i \in 1..Len(tasks) :
        /\ tasks[i].name = "execute_autonomous_action"
        /\ tasks' = Remove(tasks, i)
        /\ last' = Called("take_dispatched", tasks[i].action, 0, "none",
                          tasks[i].action \in ActionTypes, 0)
        /\ UNCHANGED <<ticket, history, resolution, now, inflight>>

\* the view process_with_agent(request, ticket_id); `queued` is false when the
\* broker is unavailable (OperationalError)
process_with_agent(reset, queued) ==
    /\ Len(tasks) < MaxTasks
    /\ ticket' = IF reset
                 THEN [ticket EXCEPT !.agent_processed = FALSE, !.agent_response = EmptyDict]
                 ELSE ticket
    /\ tasks' = IF queued THEN Append(tasks, ProcessTask(0)) ELSE tasks
    /\ last' = Called("process_with_agent", None, 0, "none", queued, 0)
    /\ UNCHANGED <<history, resolution, now, inflight>>

\* the view clarify_ticket(request, ticket_id): description and issue_type are
\* required; the ticket is saved with the new text, a clarification interaction
\* is added and the AI processing task is queued again
clarify_ticket(valid) ==
    IF ~valid
    THEN /\ last' = Called("clarify_ticket", None, 0, "HTTP_400_BAD_REQUEST", FALSE, 0)
         /\ UNCHANGED <<ticket, history, resolution, tasks, now, inflight>>
    ELSE /\ Len(tasks) < MaxTasks
         /\ tasks' = Append(tasks, ProcessTask(0))
         /\ last' = Called("clarify_ticket", None, 0, "none", TRUE, 1)
         /\ UNCHANGED <<ticket, history, resolution, now, inflight>>

\* the worker that took a dispatched REQUEST_CLARIFICATION runs its handler
RunClarification ==
    /\ last.op = "take_dispatched"
    /\ last.action = "REQUEST_CLARIFICATION"
    /\ \E fail \in FailPoints(ClarificationSteps) :
           handle_request_clarification(EmptyDict, fail)

----------------------------------------------------------------------------
(* Interleaved operations.  No view or task takes a lock, opens a            *)
(* transaction or passes update_fields: an operation loads its rows, changes *)
(* the copies in memory and saves every column of them.  Between the load    *)
(* and the save other operations run.                                        *)

\* an operation that holds copies of the rows it loaded
Request(op, i, rollback_by, reason) ==
    [op |-> op, entry |-> i, by |-> rollback_by, reason |-> reason,
     ticket |-> ticket,
     loaded |-> IF i \in 1..Len(history) THEN history[i] ELSE NoRow]

\* rollback_action up to the call of the handler: the permission check,
\* ActionHistory.objects.get, the rolled_back and can_rollback checks, and
\* `ticket = action_history.ticket`
rollback_action_load(i, user, reason) ==
    IF ~is_staff(user) THEN Rejected(i, user, "HTTP_403_FORBIDDEN")
    ELSE IF history[i].rolled_back THEN Rejected(i, user, "HTTP_400_BAD_REQUEST")
    ELSE IF ~can_rollback(history[i].action_type)
    THEN Rejected(i, user, "HTTP_400_BAD_REQUEST")
    ELSE /\ Len(inflight) < MaxRequests
         /\ inflight' = Append(inflight, Request("rollback_action", i, user, reason))
         /\ last' = CalledBy(user, "rollback_action:load", i, "none", FALSE, 0)
         /\ UNCHANGED <<ticket, history, resolution, tasks, now>>

\* the ticket copy a rollback handler saves
RolledBackTicket(t, entry) ==
    LET handler == RollbackHandler(entry.action_type)
    IN  IF handler = "rollback_auto_resolve"
        THEN [t EXCEPT !.status = RestoredStatus(entry.before_state, "in-progress")]
        ELSE IF handler = "rollback_escalate"
        THEN [t EXCEPT !.status = RestoredStatus(entry.before_state, "new")]
        ELSE [t EXCEPT !.assigned_to = None]

\* the handler returns False without a write: no handler for the type, or the
\* user lookup of rollback_assign_to_team raises
RollbackRefused(entry) ==
    LET handler == RollbackHandler(entry.action_type)
    IN  \/ handler = "no_handler"
        \/ /\ handler = "rollback_assign_to_team"
           /\ PrevAssigneeId(entry.before_state) # None

\* the rest of rollback_action: the handler changes and saves its copies
rollback_action_save(r) ==
    LET req == inflight[r]
        refused == RollbackRefused(req.loaded)
    IN  /\ req.op = "rollback_action"
        /\ ticket' = IF refused THEN ticket ELSE RolledBackTicket(req.ticket, req.loaded)
        /\ history' = IF refused THEN history
                      ELSE [history EXCEPT
                               ![req.entry] = MarkRolledBack(req.loaded, req.by, req.reason, now)]
        /\ inflight' = Remove(inflight, r)
        /\ last' = CalledBy(req.by, "rollback_action:save", req.entry, "none", ~refused,
                            IF refused THEN 0 ELSE 1)
        /\ UNCHANGED <<resolution, tasks, now>>

\* execute_autonomous_action(ticket_id, ESCALATE, params) up to the call of the
\* handler: Ticket.objects.get
escalate_load ==
    /\ Len(inflight) < MaxRequests
    /\ inflight' = Append(inflight, Request("handle_escalate", 0, None, ""))
    /\ last' = Called("handle_escalate:load", "ESCALATE", 0, "none", FALSE, 0)
    /\ UNCHANGED <<ticket, history, resolution, tasks, now>>

\* handle_escalate on the loaded copy: status, ticket.save(), the history entry
escalate_save(r) ==
    LET req == inflight[r]
    IN  /\ req.op = "handle_escalate"
        /\ Len(history) < MaxHistory
        /\ ticket' = [req.ticket EXCEPT !.status = "escalated"]
        /\ history' = Append(history,
                         [NewEntry("ESCALATE", EscalateBeforeState(req.ticket),
                                   [status |-> "escalated"], TRUE)
                          EXCEPT !.agent_reasoning = EscalationReason(EmptyDict)])
        /\ inflight' = Remove(inflight, r)
        /\ last' = Called("handle_escalate:save", "ESCALATE", 0, "none", TRUE, 1)
        /\ UNCHANGED <<resolution, tasks, now>>

\* process_ticket_with_agent up to the AI call: Ticket.objects.get and the
\* agent_processed test on the copy; a worker took the task off the queue
process_load(i) ==
    /\ tasks[i].name = "process_ticket_with_agent"
    /\ IF ticket.agent_processed
       THEN /\ last' = Called("process_ticket_with_agent:load", None, 0, "none", FALSE, 0)
            /\ UNCHANGED inflight
       ELSE /\ Len(inflight) < MaxRequests
            /\ inflight' = Append(inflight,
                                  Request("process_ticket_with_agent", 0, None, ""))
            /\ last' = Called("process_ticket_with_agent:load", None, 0, "none", TRUE, 0)
    /\ tasks' = Remove(tasks, i)
    /\ UNCHANGED <<ticket, history, resolution, now>>

\* process_ticket_with_agent from the AI call on, on the loaded copy: the
\* response is stored, ticket.save(), the decision is dispatched
process_save(r, response) ==
    LET req == inflight[r]
        stored == [req.ticket EXCEPT !.agent_response = response,
                                     !.agent_processed = TRUE]
        action == decide_autonomous_action(stored.agent_response)
    IN  /\ req.op = "process_ticket_with_agent"
        /\ Len(tasks) < MaxTasks
        /\ ticket' = stored
        /\ tasks' = Append(tasks, DispatchTask(action))
        /\ inflight' = Remove(inflight, r)
        /\ last' = Called("process_ticket_with_agent:save", action, 0, "none", TRUE, 0)
        /\ UNCHANGED <<history, resolution, now>>

----------------------------------------------------------------------------
(* Specifications *)

\* The Action Executor with its delayed tasks and a concurrent status writer
Next ==
    \/ Execute
    \/ FireTask
    \/ \E status_val \in ManualStatuses : bulk_update_tickets(status_val)

Spec == Init /\ [][Next]_vars

\* The Rollback Manager over the rows of the ActionHistory table
NextRollback ==
    \/ \E status_val \in ManualStatuses : bulk_update_tickets(status_val)
    \/ \E action_type \in ActionTypes, before_state \in SnapshotInputs :
           ActionHistory_create(action_type, before_state)
    \/ ExecuteRollback
    \/ RollbackRequest

SpecRollback == Init /\ [][NextRollback]_vars

\* The Resolution Feedback Tracker over the TicketResolution row
NextFeedback ==
    \/ \E status_val \in ManualStatuses : bulk_update_tickets(status_val)
    \/ \E reopened \in BOOLEAN, confirmed \in Confirmations, score \in Scores :
           TicketResolution_create(reopened, confirmed, score)
    \/ SubmitFeedback

SpecFeedback == Init /\ [][NextFeedback]_vars

\* AI processing of a ticket: the queue of process_ticket_with_agent tasks
NextAgent ==
    \/ \E reset \in BOOLEAN, queued \in BOOLEAN : process_with_agent(reset, queued)
    \/ ProcessTicket
    \/ TakeDispatched
    \/ \E status_val \in ManualStatuses : bulk_update_tickets(status_val)

SpecAgent == Init /\ [][NextAgent]_vars

\* Rollback requests, escalations and bulk updates that interleave
NextConcurrent ==
    \/ \E action_type \in {"AUTO_RESOLVE", "ASSIGN_TO_TEAM"} :
           \E before_state \in {EmptyDict, [status |-> "in_progress"]} :
               ActionHistory_create(action_type, before_state)
    \/ \E status_val \in ManualStatuses : bulk_update_tickets(status_val)
    \/ \E i \in 1..Len(history), user \in Actors \cup {"user1"}, reason \in Reasons :
           rollback_action_load(i, user, reason)
    \/ \E r \in 1..Len(inflight) : rollback_action_save(r)
    \/ escalate_load
    \/ \E r \in 1..Len(inflight) : escalate_save(r)

SpecConcurrent == Init /\ [][NextConcurrent]_vars

\* ASSIGN_TO_TEAM and ESCALATE executions (the two branches of the dispatcher of
\* execute_autonomous_action) followed by rollbacks of the entries they record
NextRoundTrip ==
    \/ \E params \in ParamsOf("ASSIGN_TO_TEAM"), fail \in FailPoints(AssignSteps) :
           handle_assign_to_team(params, fail)
    \/ \E params \in ParamsOf("ESCALATE"), fail \in FailPoints(EscalateSteps) :
           handle_escalate(params, fail)
    \/ \E status_val \in ManualStatuses : bulk_update_tickets(status_val)
    \/ ExecuteRollback
    \/ RollbackRequest

SpecRoundTrip == Init /\ [][NextRoundTrip]_vars

\* timezone.now() advances between two operations
Tick ==
    /\ now < MaxTime
    /\ now' = now + 1
    /\ UNCHANGED <<ticket, history, resolution, tasks, inflight, last>>

\* The feedback loop of one ticket: AUTO_RESOLVE, the firing of the follow-up it
\* schedules and the requester's feedback, at any time and in any order
NextFeedbackLoop ==
    \/ \E params \in ParamsOf("AUTO_RESOLVE"), fail \in FailPoints(AutoResolveSteps) :
           handle_auto_resolve(params, fail)
    \/ \E i \in 1..Len(tasks), fail \in FailPoints(ResolutionFollowupSteps) :
           schedule_resolution_followup(i, fail)
    \/ \E confirmed \in Confirmations, fail \in FailPoints(FeedbackSteps) :
           submit_resolution_feedback(confirmed, NoScore, Missing, fail)
    \/ Tick

SpecFeedbackLoop == Init /\ [][NextFeedbackLoop]_vars

\* process_ticket_with_agent tasks of one ticket that run on several workers;
\* the view queues them without a reset
NextAgentConcurrent ==
    \/ process_with_agent(FALSE, TRUE)
    \/ \E i \in 1..Len(tasks) : process_load(i)
    \/ \E r \in 1..Len(inflight), response \in AgentResponses : process_save(r, response)
    \/ TakeDispatched

SpecAgentConcurrent == Init /\ [][NextAgentConcurrent]_vars

\* AI processing, the clarification request it can lead to and the requester's
\* answer; the dispatched actions of the other types are taken and not run here
NextClarify ==
    \/ process_with_agent(TRUE, TRUE)
    \/ ProcessTicket
    \/ TakeDispatched
    \/ RunClarification
    \/ \E valid \in BOOLEAN : clarify_ticket(valid)

SpecClarify == Init /\ [][NextClarify]_vars

----------------------------------------------------------------------------
(* Properties *)

IsRollback == last.op \in {"execute_rollback", "rollback_action"}
IsExecution == last.op = "execute_autonomous_action"

\* the entry the last rollback call was made on
Target == history[last.entry]

\* the rollback fields of an entry are as ActionHistory creates them
NotMarked(entry) ==
    /\ ~entry.rolled_back
    /\ entry.rolled_back_at = NoTime
    /\ entry.rolled_back_by = None
    /\ entry.rollback_reason = ""

PersistenceSteps == {"ticket_save", "interaction_create", "entry_save"}

\* C1: RollbackManager.execute_rollback called twice in sequence on a
\* rollback-eligible entry: the first call returns true and sets rolled_back, the
\* second (the entry is already rolled back) returns false and leaves the
\* ticket's status and assignee as they were before it.
C1_AtMostOnceRollback ==
    last.op = "execute_rollback" =>
        /\ (~last.was_rolled_back /\ last.action \in {"AUTO_RESOLVE", "ESCALATE"}
                /\ last.fail = "none")
            => (last.ret /\ Target.rolled_back)
        /\ last.was_rolled_back => (~last.ret /\ ticket = last.pre)

\* C2: a successful rollback of an AUTO_RESOLVE or ESCALATE entry whose
\* before_state records a status s sets ticket.status to exactly s, whatever the
\* ticket's status was.
C2_RollbackRestoresSnapshot ==
    (/\ IsRollback
     /\ last.ret
     /\ last.action \in {"AUTO_RESOLVE", "ESCALATE"}
     /\ "status" \in DOMAIN Target.before_state)
    => ticket.status = Target.before_state.status

C2_Witness ==
    /\ IsRollback
    /\ last.ret
    /\ last.action = "AUTO_RESOLVE"
    /\ "status" \in DOMAIN Target.before_state
    /\ last.pre.status \notin {Target.before_state.status, "resolved"}
    /\ ticket.status = "new"

\* C3: execute_rollback on a REQUEST_CLARIFICATION or CREATE_KB_ARTICLE entry
\* always fails and changes neither the ticket (status, assignee, interactions)
\* nor the entry (rolled_back stays false, the rollback metadata stays empty).
C3_NonEligibleRejected ==
    (IsRollback /\ last.action \in {"REQUEST_CLARIFICATION", "CREATE_KB_ARTICLE"})
    => /\ ~last.ret
       /\ ticket = last.pre
       /\ last.interactions = 0
       /\ NotMarked(Target)

C3_Witness ==
    /\ last.op = "execute_rollback"
    /\ last.action = "REQUEST_CLARIFICATION"
    /\ ~last.ret
    /\ ticket.status = "closed"

\* C4: whenever execute_rollback returns false because a persistence step failed
\* (ticket save, interaction insert, entry save) the ticket's status and assignee
\* are as before the call and the entry is not marked rolled back; and the entry
\* is marked rolled back only if the ticket reversal was persisted.
C4_RollbackAllOrNothing ==
    (IsRollback /\ ~last.was_rolled_back /\ last.action \in {"AUTO_RESOLVE", "ESCALATE"})
    => /\ (~last.ret /\ last.fail \in PersistenceSteps)
            => (ticket = last.pre /\ ~Target.rolled_back)
       /\ Target.rolled_back
            => ticket.status = RestoredStatus(Target.before_state,
                                   IF last.action = "AUTO_RESOLVE" THEN "in-progress"
                                   ELSE "new")

\* the newest ActionHistory entry and the newest scheduled task
Newest == history[Len(history)]
NewestTask == tasks[Len(tasks)]

\* C5: whenever execute_autonomous_action returns false (an exception was raised
\* anywhere inside the handler) the ticket's status is the same as before the
\* call and no ActionHistory entry was added by the call.
C5_FailedExecutionNoTrace ==
    (IsExecution /\ ~last.ret)
    => /\ ticket.status = last.pre.status
       /\ Len(history) = last.entries

\* C6: if the notification call raises while an action is executed,
\* execute_autonomous_action still returns success, and the steps after the
\* notification (for AUTO_RESOLVE, scheduling the follow-up) still happen.
C6_NotifyFailureTolerated ==
    (IsExecution /\ last.fail = "notify")
    => /\ last.ret
       /\ last.action = "AUTO_RESOLVE" => Len(tasks) = last.tasks + 1

\* C7: every successful execution of an action, for each of the six action
\* types, adds exactly one ActionHistory entry with that action_type.
C7_OneEntryPerAction ==
    (IsExecution /\ last.ret)
    => /\ Len(history) = last.entries + 1
       /\ Newest.action_type = last.action

\* C8: AUTO_RESOLVE executed without a failure on a ticket whose status is
\* already resolved returns success and is a no-op: no further ActionHistory
\* entry and no further follow-up.
C8_AutoResolveIdempotent ==
    (/\ IsExecution
     /\ last.action = "AUTO_RESOLVE"
     /\ last.fail = "none"
     /\ last.pre.status = "resolved")
    => /\ last.ret
       /\ Len(history) = last.entries
       /\ Len(tasks) = last.tasks

\* C9: from a ticket with status s and assignee a, one successful AUTO_RESOLVE
\* leaves status resolved, exactly one new ActionHistory entry (AUTO_RESOLVE,
\* rollback_possible, before_state = {status s, assignee a}, after_state.status
\* resolved), one ResolutionTracking row, and exactly one follow-up task
\* scheduled 24 hours later.
C9_AutoResolveEffects ==
    (IsExecution /\ last.action = "AUTO_RESOLVE" /\ last.ret)
    => /\ ticket.status = "resolved"
       /\ ticket.assigned_to = last.pre.assigned_to
       /\ Len(history) = last.entries + 1
       /\ Newest.action_type = "AUTO_RESOLVE"
       /\ Newest.rollback_possible
       /\ Newest.before_state = [status |-> last.pre.status,
                                 assigned_to_id |-> last.pre.assigned_to]
       /\ Newest.after_state.status = "resolved"
       /\ resolution.exists
       /\ Len(tasks) = last.tasks + 1
       /\ NewestTask = Task("schedule_resolution_followup", 24 * 60 * 60)

C9_Witness ==
    /\ IsExecution
    /\ last.action = "AUTO_RESOLVE"
    /\ last.ret
    /\ last.pre.status = "in_progress"
    /\ ticket.status = "resolved"
    /\ Len(history) = 1

C11_FollowupCheckNoOpWhenResolved ==
    (last.op = "check_ticket_followup" /\ last.pre.status \in {"resolved", "closed"})
    => /\ ticket = last.pre
       /\ Len(history) = last.entries
       /\ last.interactions = 0

C11_Witness ==
    /\ last.op = "check_ticket_followup"
    /\ last.pre.status = "closed"
    /\ ticket.status = "closed"
    /\ Len(history) = 1

IsFeedback == last.op = "submit_resolution_feedback"

\* C12: after submit_resolution_feedback with resolution_confirmed = false the
\* ticket's ResolutionTracking has reopened = true, reopened_at set and a
\* non-empty reopened_reason, and ticket.status is escalated.
C12_NegativeFeedbackReopens ==
    (IsFeedback /\ last.ret /\ resolution.resolution_confirmed = False)
    => /\ resolution.reopened
       /\ resolution.reopened_at # NoTime
       /\ resolution.reopened_reason # ""
       /\ ticket.status = "escalated"

\* a row is reopened only by a feedback submission, which stamps reopened_at
ReopenedByFeedback == resolution.reopened => resolution.reopened_at # NoTime

\* C13: after submit_resolution_feedback with resolution_confirmed = true and
\* satisfaction_score = 5, whatever was submitted before, the ResolutionTracking
\* has reopened = false and was_successful = true, and nothing of an earlier
\* submission is kept.
C13_PositiveFeedbackSucceeds ==
    (/\ IsFeedback
     /\ last.ret
     /\ resolution.resolution_confirmed = True
     /\ resolution.satisfaction_score = 5
     /\ ReopenedByFeedback)
    => /\ ~resolution.reopened
       /\ was_successful(resolution) = True
       /\ resolution.reopened_at = NoTime
       /\ resolution.reopened_reason = ""

\* C14: was_successful is false when reopened; otherwise true when
\* resolution_confirmed is true or satisfaction_score >= 4; otherwise unknown
\* (None), never false; for every combination of reopened, resolution_confirmed
\* in {None, true, false} and satisfaction_score in {None, 1..5}.
C14_WasSuccessfulThreeValued ==
    resolution.exists
    => /\ resolution.reopened => was_successful(resolution) = False
       /\ ~resolution.reopened =>
            /\ was_successful(resolution) # False
            /\ was_successful(resolution) = True
                 <=> \/ resolution.resolution_confirmed = True
                     \/ /\ resolution.satisfaction_score # NoScore
                        /\ resolution.satisfaction_score >= 4
            /\ was_successful(resolution) \in {True, None}

C14_Witness ==
    /\ resolution.exists
    /\ ~resolution.reopened
    /\ resolution.resolution_confirmed = False
    /\ resolution.satisfaction_score = 2
    /\ was_successful(resolution) = None

IsProcess == last.op = "process_ticket_with_agent"

\* C15: when the AI-scoring call fails, process_ticket_with_agent is attempted at
\* most 1 + 3 times: a failed attempt is re-queued with its retry count while
\* attempts remain and is not re-queued after the last; a failed attempt leaves
\* agent_processed false and dispatches no action; and agent_processed becomes
\* true only in an attempt that stored an AI response.
C15_BoundedRetry ==
    /\ (IsProcess /\ last.fail = "requests_post")
       => /\ last.attempt <= 1 + 3
          /\ ~ticket.agent_processed
          /\ ticket = last.pre
          /\ IF last.attempt < 1 + 3
             THEN /\ Len(tasks) = last.tasks
                  /\ NewestTask.name = "process_ticket_with_agent"
                  /\ NewestTask.retries = last.attempt
             ELSE Len(tasks) = last.tasks - 1
    /\ (ticket.agent_processed /\ ~last.pre.agent_processed)
       => /\ IsProcess
          /\ last.fail \notin {"requests_post", "ticket_save"}
          /\ ticket.agent_response \in AgentResponses
    /\ \A i \in 1..Len(tasks) :
          tasks[i].name = "process_ticket_with_agent" => tasks[i].retries <= 3

C15_Witness ==
    /\ IsProcess
    /\ last.fail = "requests_post"
    /\ last.attempt = 4
    /\ ~ticket.agent_processed
    /\ tasks = << >>

\* C16: a rollback_action request of a user who is not staff is rejected as
\* forbidden and changes neither the ticket nor the ActionHistory entry; only a
\* staff request reaches RollbackManager.execute_rollback.
C16_RollbackRequiresStaff ==
    last.op = "rollback_action"
    => /\ ~is_staff(last.by)
          => /\ last.fail = "HTTP_403_FORBIDDEN"
             /\ ~last.ret
             /\ ticket = last.pre
             /\ last.interactions = 0
             /\ Len(history) = last.entries
             /\ Target.rolled_back = last.was_rolled_back
             /\ ~last.was_rolled_back => NotMarked(Target)
       /\ last.fail \notin {"HTTP_403_FORBIDDEN", "HTTP_400_BAD_REQUEST"}
          => is_staff(last.by)

C16_Witness ==
    /\ last.op = "rollback_action"
    /\ last.by = "user1"
    /\ last.action = "AUTO_RESOLVE"
    /\ last.fail = "HTTP_403_FORBIDDEN"
    /\ last.pre.status = "resolved"
    /\ ticket.status = "resolved"

\* C17: when two rollback requests for the same entry are processed
\* concurrently, at most one applies the reversal: a request that saves after
\* the entry was marked rolled back fails, leaves the ticket as it is and adds
\* nothing, so that rolled_back, rolled_back_at, rolled_back_by and
\* rollback_reason are written once.
C17_ConcurrentRollbackOnce ==
    (last.op = "rollback_action:save" /\ last.was_rolled_back)
    => /\ ~last.ret
       /\ ticket = last.pre
       /\ last.interactions = 0

\* C18: when two operations on one ticket interleave, none overwrites a
\* committed write of the other: a handler that only changes the status leaves
\* the assignee as committed at the time of its save, and a handler that only
\* changes the assignee leaves the status as committed at the time of its save.
C18_NoSilentOverwrite ==
    /\ last.op = "handle_escalate:save"
       => ticket.assigned_to = last.pre.assigned_to
    /\ (last.op = "rollback_action:save" /\ last.ret)
       => IF last.action = "ASSIGN_TO_TEAM"
          THEN ticket.status = last.pre.status
          ELSE ticket.assigned_to = last.pre.assigned_to

C20_PolicyTotal ==
    /\ \A k \in 1..Len(tasks) :
           tasks[k].name = "execute_autonomous_action"
           => tasks[k].action \in ActionTypes
    /\ (IsProcess /\ last.ret)
       => /\ Len(tasks) > 0
          /\ NewestTask.name = "execute_autonomous_action"
          /\ NewestTask.action \in ActionTypes
    /\ last.op = "take_dispatched" => (last.ret /\ last.action \in ActionTypes)

\* a confident signal without steps matched no branch and was dispatched, and
\* taken by the executor, as ESCALATE
C20_Witness ==
    /\ last.op = "take_dispatched"
    /\ last.action = "ESCALATE"
    /\ last.ret
    /\ "confidence" \in DOMAIN ticket.agent_response
    /\ ticket.agent_response.confidence = 100
    /\ ticket.agent_response.category = "wifi"
    /\ "resolution_steps" \notin DOMAIN ticket.agent_response

\* C21: ASSIGN_TO_TEAM round trip. When a successful ASSIGN_TO_TEAM execution
\* on a ticket with status s and assignee a is directly followed by a successful
\* rollback of the entry it recorded, the ticket has status s and assignee a
\* again, as before_state records them.
C21_AssignRoundTrip ==
    [][(/\ IsExecution
        /\ last.action = "ASSIGN_TO_TEAM"
        /\ last.ret
        /\ last'.op \in {"execute_rollback", "rollback_action"}
        /\ last'.entry = Len(history)
        /\ last'.ret)
       => /\ ticket'.status = last.pre.status
          /\ ticket'.assigned_to = last.pre.assigned_to
          /\ ticket'.status = Newest.before_state.status]_vars

\* C22: safe default when the snapshot is absent. When an entry has no
\* before_state (null or empty) or its before_state has no status, a successful
\* rollback sets ticket.status to in_progress for an AUTO_RESOLVE entry and to
\* new for an ESCALATE entry, both members of the ticket status enumeration.
C22_SafeDefault ==
    (/\ IsRollback
     /\ last.ret
     /\ last.action \in {"AUTO_RESOLVE", "ESCALATE"}
     /\ "status" \notin DOMAIN Target.before_state)
    => /\ ticket.status = IF last.action = "AUTO_RESOLVE" THEN "in_progress" ELSE "new"
       /\ ticket.status \in {"new", "in_progress", "pending_clarification",
                             "assigned", "escalated", "resolved", "closed"}

\* C23: timestamp order of the feedback loop. In every reachable state of a
\* TicketResolution row, after any interleaving of auto-resolve, follow-up
\* firing and feedback submission, if both followup_sent_at and
\* response_received_at are set then response_received_at is not earlier than
\* followup_sent_at.
C23_TimestampOrder ==
    (/\ resolution.exists
     /\ resolution.followup_sent_at # NoTime
     /\ resolution.response_received_at # NoTime)
    => resolution.response_received_at >= resolution.followup_sent_at

\* C26: a ticket has at most one TicketResolution row, and after the Action
\* Executor auto-resolved the ticket that row has autonomous_action =
\* AUTO_RESOLVE, whichever of auto-resolve, feedback submission or follow-up
\* firing created the row first.
C26_ResolutionRecordsAction ==
    (IsExecution /\ last.action = "AUTO_RESOLVE" /\ last.ret)
    => /\ resolution.exists
       /\ resolution.autonomous_action = "AUTO_RESOLVE"

\* C24: a successful SCHEDULE_FOLLOWUP does not change the ticket's status and
\* registers one delayed check_ticket_followup callback; when that callback
\* fires without an error and the ticket's status is not in {resolved, closed},
\* the ticket is escalated: status escalated and one ESCALATE entry with the
\* reason 'Solution did not resolve issue within expected timeframe'.
C24_FollowupScheduledAndEscalates ==
    /\ (IsExecution /\ last.action = "SCHEDULE_FOLLOWUP" /\ last.ret)
       => /\ ticket.status = last.pre.status
          /\ Len(tasks) = last.tasks + 1
          /\ NewestTask.name = "check_ticket_followup"
    /\ (/\ last.op = "check_ticket_followup"
        /\ last.fail = "none"
        /\ last.pre.status \notin {"resolved", "closed"})
       => /\ ticket.status = "escalated"
          /\ Len(history) = last.entries + 1
          /\ Newest.action_type = "ESCALATE"
          /\ Newest.agent_reasoning =
                 "Solution did not resolve issue within expected timeframe"

\* C25: an unknown action type is rejected, not coerced. A call of
\* execute_autonomous_action with an action string outside the six defined
\* types returns false and changes nothing: the ticket's status and assignee,
\* the ActionHistory entries, the TicketResolution row and the scheduled tasks
\* are as before, and no interaction is added.
C25_UnknownActionRejected ==
    [][(last'.op = "execute_autonomous_action" /\ last'.action \notin ActionTypes)
       => /\ ~last'.ret
          /\ last'.interactions = 0
          /\ UNCHANGED <<ticket, history, resolution, tasks>>]_vars

\* the unknown action was rejected on a ticket that earlier actions had changed
C25_Witness ==
    /\ IsExecution
    /\ last.action = UnknownAction
    /\ ~last.ret
    /\ ticket.status = "escalated"
    /\ Len(history) = 1
    /\ Len(tasks) = 1
    /\ resolution.exists

\* C27: can_rollback and execute_rollback agree. For every action type with
\* can_rollback true (AUTO_RESOLVE, ASSIGN_TO_TEAM, ESCALATE, SCHEDULE_FOLLOWUP)
\* and every entry of that type that is not yet rolled back, execute_rollback
\* returns true when no persistence step fails and marks the entry rolled back
\* with rolled_back_by = actor and rollback_reason = reason; and it returns
\* false for every type with can_rollback false.
C27_CanRollbackAgrees ==
    (/\ last.op = "execute_rollback" \/ (last.op = "rollback_action"
                                          /\ last.fail \notin {"HTTP_403_FORBIDDEN",
                                                               "HTTP_400_BAD_REQUEST"})
     /\ ~last.was_rolled_back)
    => /\ (/\ last.action \in {"AUTO_RESOLVE", "ASSIGN_TO_TEAM", "ESCALATE",
                               "SCHEDULE_FOLLOWUP"}
           /\ last.fail \notin PersistenceSteps)
          => /\ last.ret
             /\ Target.rolled_back
             /\ Target.rolled_back_by = last.by
             /\ Target.rollback_reason = "r1"
       /\ last.action \in {"REQUEST_CLARIFICATION", "CREATE_KB_ARTICLE"} => ~last.ret

\* the entry was recorded by the escalation of a follow-up check
ByFollowupCheck(entry) ==
    /\ entry.action_type = "ESCALATE"
    /\ entry.agent_reasoning = FollowupEscalationParams.escalation_reason

\* C28: duplicate firing of the follow-up on an unresolved ticket escalates
\* once. When check_ticket_followup is delivered two or more times for a ticket
\* that is not resolved or closed, these firings add one ESCALATE entry: there
\* is no second entry of a follow-up check whose before_state.status is already
\* escalated.
C28_DuplicateFollowupEscalatesOnce ==
    \A j, k \in 1..Len(history) :
        (j < k /\ ByFollowupCheck(history[j]) /\ ByFollowupCheck(history[k]))
        => history[k].before_state.status # "escalated"

\* C29: one decision-execution cycle per AI response. Unless a reset is
\* requested, once a ticket has agent_processed = true no further autonomous
\* action is dispatched for it: of several process_ticket_with_agent tasks of
\* one ticket that are queued or run concurrently, only one calls the AI service
\* and dispatches execute_autonomous_action.
C29_OneCyclePerResponse ==
    /\ (last.op = "process_ticket_with_agent:save" /\ last.ret)
       => ~last.pre.agent_processed
    /\ (last.op = "process_ticket_with_agent:load" /\ last.pre.agent_processed)
       => (~last.ret /\ ticket = last.pre)

\* C30: clarification leads to re-analysis. After REQUEST_CLARIFICATION put a
\* ticket into pending_clarification and the requester answered with
\* clarify_ticket, the process_ticket_with_agent task that was queued obtains a
\* new AI response when it runs without an error, and a new action is
\* dispatched: the task is not skipped.
C30_ClarificationReanalysed ==
    (IsProcess /\ last.pre.status = "pending_clarification" /\ last.fail = "none")
    => /\ last.ret
       /\ Len(tasks) > 0
       /\ NewestTask.name = "execute_autonomous_action"

====
